---- MODULE Spec2Model ----
(***************************************************************************)
(* Model of src/src/program.rs: the frame-paced event loop (EventLoop) and *)
(* the per-frame sequencing of Program::run (process_events, draw,         *)
(* render).  The platform event source, the event translator, the conrod   *)
(* Ui and the glium render backend are collaborators; each is modelled by  *)
(* the outcomes its calls can have at the call sites of program.rs.        *)
(*                                                                         *)
(* Time is kept relative: since_last_update is Instant::now() minus        *)
(* self.last_update, saturating above every time step, so that every       *)
(* comparison the code makes with time_step is exact.                      *)
(***************************************************************************)
EXTENDS Integers, Sequences, FiniteSets, TLC

\* Largest time step (in clock ticks) a Program is constructed with.
MaxStep == 2
\* Number of platform events delivered during one execution.
MaxEvents == 3

\* Saturation point of the relative clocks: above every time step.
ClockCap == MaxStep + 1

\* glutin::Event, by what program.rs distinguishes: an event the translator
\* turns into a conrod event, one it drops, and WindowEvent::CloseRequested.
EventKinds == {"Input", "Noise", "CloseRequested"}

VARIABLES
    pc,                 \* position of the single thread in run / next / render
    time_step,          \* EventLoop.time_step
    since_last_update,  \* Instant::now() - EventLoop.last_update (saturating)
    ui_needs_update,    \* EventLoop.ui_needs_update
    sleep_left,         \* remaining duration of the thread::sleep in next
    queue,              \* events pending in the glutin::EventsLoop
    events,             \* the Vec collected by next, then iterated by process_events
    ui_changed,         \* conrod Ui: draw_if_changed would yield primitives
    renderer,           \* conrod_glium::Renderer: which of two vertex buffers holds the last fill
    display,            \* glium display: which of its two buffers is in front
    arrived,            \* number of events the platform has delivered so far
    batch,              \* history: the batch most recently returned by next
    it,                 \* history: operations of the current iteration of run
    snap,               \* history: <<renderer, display>> when the iteration began
    since_return,       \* history: time since next last returned (or construction)
    returns,            \* history: number of returns of next so far, counted up to 2
    waited,             \* history: the current call of next went through run_forever
    close_seen,         \* history: process_events matched CloseRequested
    close_delivered,    \* history: the platform delivered a CloseRequested
    failed,             \* history: the render backend reported a failure
    last_handled,       \* history: id of the event last passed to the translator
    returned_upto,      \* history: id of the newest event returned in a batch
    prev_handled        \* history: the iteration before this call of next delivered a Ui event

vars == <<pc, time_step, since_last_update, ui_needs_update, sleep_left, queue,
          events, ui_changed, renderer, display, arrived, batch, it, snap,
          since_return, returns, waited, close_seen, close_delivered,
          failed, last_handled, returned_upto, prev_handled>>

Op(name, ev) == [op |-> name, ev |-> ev]

Log(ops) == it' = it \o ops

\* ---------------------------------------------------------------- helpers

\* conrod_winit::convert_event: Some for events the toolkit cares about.
convert_event(e) == IF e.kind = "Input" THEN <<e.id>> ELSE <<>>

\* The match of process_events on WindowEvent::CloseRequested.
IsCloseRequested(e) == e.kind = "CloseRequested"

\* The duration next sleeps for, from duration_since_last_update.
SleepDurationShort(d, T) == IF d + 1 < T THEN T - d - 1 ELSE 0
SleepDuration(d, T) == IF d < T THEN T - d ELSE 0

\* The condition under which next blocks in run_forever.
ShouldWaitAlways(evs, needs) == evs = <<>>
ShouldWaitNever(evs, needs) == FALSE
ShouldWait(evs, needs) == evs = <<>> /\ ~needs

Sat(n) == IF n < ClockCap THEN n + 1 ELSE ClockCap

\* ------------------------------------------------------------------- Init

\* EventLoop::new and Program::new.
Init ==
    /\ pc = "loop"
    /\ time_step \in 0..MaxStep
    /\ since_last_update = 0
    /\ ui_needs_update = TRUE
    /\ sleep_left = 0
    /\ queue = <<>>
    /\ events = <<>>
    /\ ui_changed \in BOOLEAN
    /\ renderer = 0
    /\ display = 0
    /\ arrived = 0
    /\ batch = <<>>
    /\ it = <<>>
    /\ snap = <<0, 0>>
    /\ since_return = 0
    /\ returns = 0
    /\ waited = FALSE
    /\ close_seen = FALSE
    /\ close_delivered = FALSE
    /\ failed = FALSE
    /\ last_handled = 0
    /\ returned_upto = 0
    /\ prev_handled = FALSE

\* ------------------------------------------------------------ environment

\* run has neither returned nor panicked: the process is alive.
Running == pc \notin {"done", "aborted"}

\* The platform queues one more event.
Arrive ==
    /\ Running
    /\ arrived < MaxEvents
    /\ \E k \in EventKinds :
          /\ queue' = Append(queue, [id |-> arrived + 1, kind |-> k])
          /\ close_delivered' = (close_delivered \/ k = "CloseRequested")
    /\ arrived' = arrived + 1
    /\ UNCHANGED <<pc, time_step, since_last_update, ui_needs_update, sleep_left,
                   events, ui_changed, renderer, display, batch, it, snap,
                   since_return, returns, waited, close_seen, failed,
                   last_handled, returned_upto, prev_handled>>

\* One clock tick passes.
Tick ==
    /\ Running
    /\ since_last_update < ClockCap \/ since_return < ClockCap \/ sleep_left > 0
    /\ since_last_update' = Sat(since_last_update)
    /\ since_return' = Sat(since_return)
    /\ sleep_left' = IF sleep_left > 0 THEN sleep_left - 1 ELSE 0
    /\ UNCHANGED <<pc, time_step, ui_needs_update, queue, events, ui_changed,
                   renderer, display, arrived, batch, it, snap, returns,
                   waited, close_seen, close_delivered, failed,
                   last_handled, returned_upto, prev_handled>>

\* -------------------------------------------------------- EventLoop::next

\* The iteration that `it` logs delivered an event to ui.handle_event.
Delivered == \E k \in 1..Len(it) : it[k].op = "handle_event"

\* run calls process_events, which calls next: lines 134-137.
NextEnter ==
    /\ pc = "loop"
    /\ sleep_left' = SleepDuration(since_last_update, time_step)
    /\ pc' = IF sleep_left' > 0 THEN "sleep" ELSE "poll"
    /\ it' = <<Op("next", 0)>>
    /\ snap' = <<renderer, display>>
    /\ waited' = FALSE
    /\ events' = <<>>
    /\ prev_handled' = Delivered
    /\ UNCHANGED <<time_step, since_last_update, ui_needs_update, queue,
                   ui_changed, renderer, display, arrived, batch, since_return,
                   returns, close_seen, close_delivered, failed,
                   last_handled, returned_upto>>

\* thread::sleep returns once the requested duration has passed.
Wake ==
    /\ pc = "sleep"
    /\ sleep_left = 0
    /\ pc' = "poll"
    /\ UNCHANGED <<time_step, since_last_update, ui_needs_update, sleep_left,
                   queue, events, ui_changed, renderer, display, arrived, batch,
                   it, snap, since_return, returns, waited, close_seen, close_delivered,
                   failed,
                   last_handled, returned_upto, prev_handled>>

\* Line 141: the closure pushes every event poll_events hands it.
DrainNewest(q) == IF q = <<>> THEN <<>> ELSE <<q[Len(q)]>>
DrainReversed(q) == [k \in 1..Len(q) |-> q[Len(q) + 1 - k]]
Drain(q) == q

\* poll_events drains the queue; then the test of line 144.
Poll ==
    /\ pc = "poll"
    /\ events' = Drain(queue)
    /\ queue' = <<>>
    /\ Log(<<Op("poll", 0)>>)
    /\ pc' = IF ShouldWait(events', ui_needs_update) THEN "wait" ELSE "ret"
    /\ UNCHANGED <<time_step, since_last_update, ui_needs_update, sleep_left,
                   ui_changed, renderer, display, arrived, batch, snap,
                   since_return, returns, waited, close_seen, close_delivered, failed,
                   last_handled, returned_upto, prev_handled>>

\* Lines 145-148: how many events run_forever hands the closure before the
\* closure's ControlFlow::Break ends it.
WaitTakeAll(q) == Len(q)
WaitTake(q) == 1

\* run_forever: blocked until an event is there, takes it and breaks.
Wait ==
    /\ pc = "wait"
    /\ queue # <<>>
    /\ events' = events \o SubSeq(queue, 1, WaitTake(queue))
    /\ queue' = SubSeq(queue, WaitTake(queue) + 1, Len(queue))
    /\ waited' = TRUE
    /\ pc' = "ret"
    /\ UNCHANGED <<time_step, since_last_update, ui_needs_update, sleep_left,
                   ui_changed, renderer, display, arrived, batch, it, snap,
                   since_return, returns, close_seen, close_delivered, failed,
                   last_handled, returned_upto, prev_handled>>

\* Line 152: last_update = Instant::now(), as the time elapsed since it.
LastUpdateKept(elapsed) == elapsed
LastUpdateAfterReturn(elapsed) == 0

\* Lines 151-154: reset the flag, stamp last_update, return the events.
Return ==
    /\ pc = "ret"
    /\ ui_needs_update' = FALSE
    /\ since_last_update' = LastUpdateAfterReturn(since_last_update)
    /\ returned_upto' = IF events = <<>> THEN returned_upto ELSE events[Len(events)].id
    /\ since_return' = 0
    /\ returns' = IF returns < 2 THEN returns + 1 ELSE 2
    /\ batch' = events
    /\ Log(<<Op("return", 0)>>)
    /\ pc' = "proc"
    /\ UNCHANGED <<time_step, sleep_left, queue, events, ui_changed, renderer,
                   display, arrived, snap, waited, close_seen, close_delivered, failed,
                   last_handled, prev_handled>>

\* ------------------------------------------------- Program::process_events

\* What process_events answers after handling e.
AfterEventNeverStop(e) == "proc"
AfterEventStopOnNoise(e) == IF e.kind = "Input" THEN "proc" ELSE "done"
AfterEvent(e) == IF IsCloseRequested(e) THEN "done" ELSE "proc"

\* Lines 67-70: ui_needs_update after the translation of one event gave ev.
NeedsUpdateAfterAny(ev, needs) == TRUE
NeedsUpdateAfter(ev, needs) == IF ev # <<>> THEN TRUE ELSE needs

\* One pass of the for loop body, lines 65-78.
HandleEvent ==
    /\ pc = "proc"
    /\ events # <<>>
    /\ LET e == Head(events)
           ev == convert_event(e)
       IN /\ events' = Tail(events)
          /\ IF ev # <<>>
                THEN /\ Log(<<Op("translate", e.id), Op("handle_event", e.id)>>)
                     /\ ui_changed' \in {ui_changed, TRUE}
                ELSE /\ Log(<<Op("translate", e.id)>>)
                     /\ UNCHANGED ui_changed
          /\ ui_needs_update' = NeedsUpdateAfter(ev, ui_needs_update)
          /\ last_handled' = e.id
          /\ pc' = AfterEvent(e)
          /\ close_seen' = (close_seen \/ IsCloseRequested(e))
    /\ UNCHANGED <<time_step, since_last_update, sleep_left, queue, renderer,
                   display, arrived, batch, snap, since_return, returns,
                   waited, close_delivered, failed, returned_upto, prev_handled>>

\* Where run goes when process_events answered Continue: line 96, self.draw(f).
AfterContinueSkipDraw == "render"
AfterContinue == "draw"

\* The for loop is exhausted: Continuation::Continue, and run goes on.
EndBatch ==
    /\ pc = "proc"
    /\ events = <<>>
    /\ pc' = AfterContinue
    /\ UNCHANGED <<time_step, since_last_update, ui_needs_update, sleep_left,
                   queue, events, ui_changed, renderer, display, arrived, batch,
                   it, snap, since_return, returns, waited, close_seen, close_delivered,
                   failed,
                   last_handled, returned_upto, prev_handled>>

\* ------------------------------------------------ Program::draw and render

\* draw: set_widgets and the user callback f, which may change the Ui.
Draw ==
    /\ pc = "draw"
    /\ Log(<<Op("callback", 0)>>)
    /\ ui_changed' \in {ui_changed, TRUE}
    /\ pc' = "render"
    /\ UNCHANGED <<time_step, since_last_update, ui_needs_update, sleep_left,
                   queue, events, renderer, display, arrived, batch, snap,
                   since_return, returns, waited, close_seen, close_delivered, failed,
                   last_handled, returned_upto, prev_handled>>

\* Where render goes after ui.draw_if_changed().
AfterQueryAlways(changed) == "fill"
AfterQueryInverted(changed) == IF changed THEN "loop" ELSE "fill"
AfterQuery(changed) == IF changed THEN "fill" ELSE "loop"

\* render, line 53: the Ui yields primitives only if it changed.
Query ==
    /\ pc = "render"
    /\ Log(<<Op(IF ui_changed THEN "some" ELSE "none", 0)>>)
    /\ pc' = AfterQuery(ui_changed)
    /\ ui_changed' \in (IF ui_changed THEN BOOLEAN ELSE {FALSE})
    /\ UNCHANGED <<time_step, since_last_update, ui_needs_update, sleep_left,
                   queue, events, renderer, display, arrived, batch, snap,
                   since_return, returns, waited, close_seen, close_delivered, failed,
                   last_handled, returned_upto, prev_handled>>

\* Where render goes after a backend call that succeeded or failed.
AfterBackendIgnore(ok, next) == next
AfterBackend(ok, next) == IF ok THEN next ELSE "aborted"

\* Line 54: renderer.fill.  Its result is not inspected (it returns unit), so
\* the only failure it can report is a panic, which unwinds out of run.
Fill ==
    /\ pc = "fill"
    /\ \E ok \in BOOLEAN :
          /\ pc' = AfterBackend(ok, "target")
          /\ renderer' = IF ok THEN 1 - renderer ELSE renderer
          /\ failed' = ~ok
    /\ Log(<<Op("fill", 0)>>)
    /\ UNCHANGED <<time_step, since_last_update, ui_needs_update, sleep_left,
                   queue, events, ui_changed, display, arrived, batch, snap,
                   since_return, returns, waited, close_seen, close_delivered,
                   last_handled, returned_upto, prev_handled>>

\* Lines 55-56: display.draw() and target.clear_color.
Target ==
    /\ pc = "target"
    /\ Log(<<Op("clear", 0)>>)
    /\ pc' = "rdraw"
    /\ UNCHANGED <<time_step, since_last_update, ui_needs_update, sleep_left,
                   queue, events, ui_changed, renderer, display, arrived, batch,
                   snap, since_return, returns, waited, close_seen, close_delivered, failed,
                   last_handled, returned_upto, prev_handled>>

\* Lines 57-59: renderer.draw(..).unwrap().
RendererDraw ==
    /\ pc = "rdraw"
    /\ \E ok \in BOOLEAN :
          /\ pc' = AfterBackend(ok, "finish")
          /\ failed' = ~ok
    /\ Log(<<Op("draw", 0)>>)
    /\ UNCHANGED <<time_step, since_last_update, ui_needs_update, sleep_left,
                   queue, events, ui_changed, renderer, display, arrived, batch,
                   snap, since_return, returns, waited, close_seen, close_delivered,
                   last_handled, returned_upto, prev_handled>>

\* Line 60: target.finish().unwrap().
Finish ==
    /\ pc = "finish"
    /\ \E ok \in BOOLEAN :
          /\ pc' = AfterBackend(ok, "loop")
          /\ display' = IF ok THEN 1 - display ELSE display
          /\ failed' = ~ok
    /\ Log(<<Op("finish", 0)>>)
    /\ UNCHANGED <<time_step, since_last_update, ui_needs_update, sleep_left,
                   queue, events, ui_changed, renderer, arrived, batch, snap,
                   since_return, returns, waited, close_seen, close_delivered,
                   last_handled, returned_upto, prev_handled>>

\* ------------------------------------------------------------------- Next

Next ==
    \/ Arrive
    \/ Tick
    \/ NextEnter
    \/ Wake
    \/ Poll
    \/ Wait
    \/ Return
    \/ HandleEvent
    \/ EndBatch
    \/ Draw
    \/ Query
    \/ Fill
    \/ Target
    \/ RendererDraw
    \/ Finish

Spec == Init /\ [][Next]_vars

\* The steps of the program's single thread.
Step ==
    \/ NextEnter
    \/ Wake
    \/ Poll
    \/ Wait
    \/ Return
    \/ HandleEvent
    \/ EndBatch
    \/ Draw
    \/ Query
    \/ Fill
    \/ Target
    \/ RendererDraw
    \/ Finish

\* The thread keeps running while it has a step to take, and time passes.
FairSpec == Spec /\ WF_vars(Step) /\ WF_vars(Tick)

\* ------------------------------------------------------- reading the log

Range(s) == {s[k] : k \in 1..Len(s)}

\* The positions of `it` that hold one of the operations `names`.
Pos(names) == {k \in 1..Len(it) : it[k].op \in names}

\* The operations of `it` among `names`, in order, as their names.
OpsOf(names) ==
    LET sel == SelectSeq(it, LAMBDA o : o.op \in names)
    IN [k \in 1..Len(sel) |-> sel[k].op]

\* The event ids of the operations `name` of `it`, in order.
IdsOf(name) ==
    LET sel == SelectSeq(it, LAMBDA o : o.op = name)
    IN [k \in 1..Len(sel) |-> sel[k].ev]

Ids(s) == [k \in 1..Len(s) |-> s[k].id]

BackendOps == {"fill", "clear", "draw", "finish"}

\* Index of the first CloseRequested of b, 0 if it has none.
FirstClose(b) ==
    LET S == {k \in 1..Len(b) : IsCloseRequested(b[k])}
    IN IF S = {} THEN 0 ELSE CHOOSE k \in S : \A j \in S : k <= j

\* ------------------------------------------------------------------ claims

\* C1: any two successive returns of EventLoop::next, and construction and
\* the first return, are at least time_step apart.
C1_ReturnsAtLeastStepApart ==
    [][pc = "ret" /\ pc' # "ret" => since_return >= time_step]_vars

\* C1 witness: next is about to return for the second time or later, exactly
\* one positive time step after the previous return, with events that arrived
\* meanwhile.
C1_Witness ==
    returns >= 1 /\ pc = "ret" /\ time_step = MaxStep /\ since_return = time_step
    /\ Len(events) >= 2

\* C2: once process_events has matched CloseRequested, run is over at that
\* very step: no next, callback, draw_if_changed or backend call follows.
C2_CloseStopsRun ==
    [][/\ (close_seen' => pc' = "done")
       /\ (close_seen => /\ pc' = "done"
                         /\ it' = it
                         /\ renderer' = renderer
                         /\ display' = display)]_vars

\* C2 witness: the close was matched after an earlier frame was presented and
\* events are still pending.
C2_Witness == close_seen /\ pc = "done" /\ returns >= 2 /\ queue # <<>>

\* C3 as stated: when run stops on a close, every event of the batch, those
\* after the close included, was translated (and delivered if a Ui event).
C3_WholeBatchTranslated ==
    pc = "done" =>
        /\ IdsOf("translate") = Ids(batch)
        /\ IdsOf("handle_event") = Ids(SelectSeq(batch, LAMBDA e : convert_event(e) # <<>>))

\* C3 amended: run stops at the first CloseRequested of the batch; exactly
\* the events up to and including it were translated (and delivered if Ui
\* events), the events after it were not.
C3_TranslatedUpToClose ==
    close_seen =>
        /\ pc = "done"
        /\ FirstClose(batch) > 0
        /\ LET prefix == SubSeq(batch, 1, FirstClose(batch))
           IN /\ IdsOf("translate") = Ids(prefix)
              /\ IdsOf("handle_event") =
                     Ids(SelectSeq(prefix, LAMBDA e : convert_event(e) # <<>>))
              /\ events = SubSeq(batch, FirstClose(batch) + 1, Len(batch))

\* C3 witness: a batch with events before and after its close.
C3_Witness ==
    pc = "done" /\ FirstClose(batch) > 1 /\ FirstClose(batch) < Len(batch)


\* C4 as stated: while no platform event has arrived, run issues no render
\* call at all, the first iteration included.
C4_NoEventsNoRender ==
    arrived = 0 => Pos(BackendOps) = {} /\ renderer = 0 /\ display = 0

\* C4 amended: with no platform event ever, next returns exactly once, with
\* an empty batch and without idle-waiting; that one iteration renders at
\* most one frame; the second call of next then blocks in the idle-wait
\* branch for good (unless that one render failed and aborted the program).
C4_QuietRunIdles ==
    /\ [](arrived = 0 =>
             /\ returns <= 1
             /\ (returns = 0 => pc # "wait")
             /\ (returns = 1 => batch = <<>> /\ pc # "ret")
             /\ renderer <= 1
             /\ display <= 1
             /\ Len(OpsOf(BackendOps)) <= 4)
    /\ ([](arrived = 0) => <>[](pc \in {"wait", "aborted"}))

\* C4 witness: no event has arrived, the first iteration presented a frame
\* and the second call of next is blocked in run_forever.
C4_Witness ==
    arrived = 0 /\ pc = "wait" /\ returns = 1 /\ display = 1 /\ renderer = 1

\* C5: a call of next that polls nothing with ui_needs_update false goes to
\* the idle wait; there it neither returns nor polls again until the platform
\* has an event for it, and the batch it then returns is not empty.
C5_IdleWaitBlocks ==
    [][/\ (pc = "poll" /\ pc' # "poll" /\ ~ui_needs_update /\ queue = <<>>
            => pc' = "wait")
       /\ (pc = "wait"
            => \/ pc' = "wait" /\ it' = it /\ events' = events /\ returns' = returns
               \/ queue # <<>> /\ pc' = "ret" /\ events' # <<>> /\ it' = it)
       /\ (pc = "ret" /\ pc' # "ret" /\ waited
            => batch' # <<>> /\ Cardinality(Pos({"poll"})) = 1)]_vars

\* C5 witness: a second or later call of next came back from the idle wait
\* with the one event that ended it.
C5_Witness ==
    pc = "proc" /\ waited /\ Len(batch) = 1 /\ returns >= 2
    /\ since_return = 0 /\ Pos({"poll"}) # {}

\* C6: in an iteration whose draw_if_changed yields nothing, no render
\* backend operation is invoked and renderer and display stay as they were.
C6_NoChangeNoRender ==
    Pos({"none"}) # {} =>
        /\ Pos(BackendOps) = {}
        /\ <<renderer, display>> = snap
        /\ pc = "loop"

\* C6 witness: an iteration that ended without rendering, after an earlier
\* one presented a frame.
C6_Witness ==
    Pos({"none"}) # {} /\ pc = "loop" /\ display = 1 /\ batch # <<>>

\* C7: an iteration renders at most one frame, as fill, clear, draw, finish
\* in this order; one that got primitives from draw_if_changed and ran to its
\* end has done exactly that, once, before next is called again.
C7_OneFramePerChange ==
    /\ \E n \in 0..4 : OpsOf(BackendOps) = SubSeq(<<"fill", "clear", "draw", "finish">>, 1, n)
    /\ Pos({"next"}) \subseteq {1}
    /\ (Pos({"some"}) # {} /\ pc = "loop"
          => /\ OpsOf(BackendOps) = <<"fill", "clear", "draw", "finish">>
             /\ renderer = 1 - snap[1]
             /\ display = 1 - snap[2])
    /\ (Pos({"some"}) # {} => pc \in {"fill", "target", "rdraw", "finish", "loop", "aborted"})
    /\ (Pos(BackendOps) # {} => Pos({"some"}) # {})

\* C7 witness: a second frame was uploaded and presented, and next has not
\* been called again yet.
C7_Witness ==
    Pos({"some"}) # {} /\ pc = "loop" /\ snap = <<1, 1>> /\ display = 0

\* C8: an iteration whose process_events answers Continue invokes the widget
\* callback exactly once, after every event of the batch was handled and
\* before draw_if_changed; the iteration that meets the close never does.
C8_CallbackOncePerFrame ==
    /\ Cardinality(Pos({"callback"})) <= 1
    /\ (close_seen => Pos({"callback"}) = {})
    /\ (pc \in {"sleep", "poll", "wait", "ret", "proc", "draw", "done"}
          => Pos({"callback"}) = {})
    /\ (pc \in {"render", "fill", "target", "rdraw", "finish", "aborted"}
           \/ (pc = "loop" /\ it # <<>>)
          => /\ Cardinality(Pos({"callback"})) = 1
             /\ IdsOf("translate") = Ids(batch)
             /\ \A c \in Pos({"callback"}) :
                   /\ \A t \in Pos({"translate", "handle_event", "return"}) : t < c
                   /\ \A q \in Pos({"some", "none"} \cup BackendOps) : c < q)

\* C8 witness: the callback ran after a batch of two events, one of them
\* delivered to the Ui, and draw_if_changed is next.
C8_Witness ==
    pc = "render" /\ Len(batch) >= 2 /\ Pos({"handle_event"}) # {}
    /\ Pos({"callback"}) # {}

\* C9: run returns only on a CloseRequested that the platform delivered and
\* that is the last event the final iteration handled.
C9_ReturnsOnlyOnClose ==
    pc = "done" =>
        /\ close_seen
        /\ close_delivered
        /\ FirstClose(batch) > 0
        /\ it[Len(it)] = Op("translate", batch[FirstClose(batch)].id)

\* C9 witness: run has returned, in a later iteration than the first.
C9_Witness == pc = "done" /\ returns >= 2 /\ Len(batch) >= 2

\* C10: a failure of a render backend call aborts the program at that call:
\* the call is not retried and no further step of run is taken.
C10_RenderFailureAborts ==
    [][/\ (failed' => pc' = "aborted")
       /\ (failed \/ pc = "aborted"
            => /\ pc' = "aborted"
               /\ it' = it
               /\ renderer' = renderer
               /\ display' = display
               /\ events' = events
               /\ returns' = returns)]_vars

\* C10 witness: renderer.draw failed after the upload; the frame was neither
\* finished nor retried.
C10_Witness ==
    failed /\ pc = "aborted" /\ OpsOf(BackendOps) = <<"fill", "clear", "draw">>
    /\ returns >= 2

\* The thread is inside EventLoop::next.
InNext == pc \in {"sleep", "poll", "wait", "ret"}

\* The ids first..last, in order.
IdRun(first, last) == [k \in 1..(last + 1 - first) |-> first + k - 1]

StrictlyIncreasing(s) == \A j, k \in 1..Len(s) : j < k => s[j] < s[k]

\* C11: ui_needs_update is false when next returns, and from then to the end
\* of process_events (and on to the next call of next) it is true exactly if
\* an event of this batch was translated and given to ui.handle_event.
C11_NeedsUpdateIffDelivered ==
    /\ (~InNext /\ it # <<>> => (ui_needs_update <=> Pos({"handle_event"}) # {}))
    /\ (pc = "proc" /\ Pos({"translate"}) = {} => ~ui_needs_update)

\* C11 witness: process_events ended on a batch holding an event the
\* translator dropped and one it delivered.
C11_Witness ==
    pc = "draw" /\ ui_needs_update /\ Len(IdsOf("translate")) >= 2
    /\ Len(IdsOf("handle_event")) = 1

\* C12: next returns an empty batch only if ui_needs_update was true when it
\* was entered and the poll found nothing; entered with it false, it returns
\* a batch that is not empty.
C12_EmptyBatchOnlyIfNeedsUpdate ==
    [][/\ (InNext /\ pc' \in {"sleep", "poll", "wait", "ret"}
            => ui_needs_update' = ui_needs_update)
       /\ (pc = "ret" /\ pc' # "ret"
            => /\ batch' = events
               /\ (batch' = <<>> => ui_needs_update /\ ~waited)
               /\ (~ui_needs_update => batch' # <<>>))]_vars

\* C12 witness: a later call of next returned an empty batch.
C12_Witness == pc = "proc" /\ batch = <<>> /\ returns >= 2 /\ Len(it) = 3

\* C13: events are translated in the order the platform delivered them,
\* within a batch and across batches, next is not called while an event of
\* the batch awaits translation, and what reaches the Ui keeps that order.
C13_EventsHandledInOrder ==
    /\ [](/\ StrictlyIncreasing(Ids(events) \o Ids(queue))
          /\ (events \o queue # <<>> => last_handled < (events \o queue)[1].id)
          /\ (pc \in {"proc", "done"} => IdsOf("translate") \o Ids(events) = Ids(batch))
          /\ (pc \in {"loop", "sleep", "poll"} => events = <<>>)
          /\ \A k \in Pos({"handle_event"}) :
                k > 1 /\ it[k - 1] = Op("translate", it[k].ev))
    /\ [][last_handled' # last_handled
            => /\ pc = "proc"
               /\ last_handled' = Head(events).id
               /\ last_handled' > last_handled]_vars

\* C13 witness: the third event delivered was translated in a second batch.
C13_Witness ==
    pc = "draw" /\ returns >= 2 /\ last_handled = 3 /\ Len(batch) >= 2
    /\ Pos({"handle_event"}) # {}

\* C14: outside next, last_update is the time of the most recent return of
\* next.
C14_LastUpdateIsLastReturn ==
    ~InNext /\ returns > 0 => since_last_update = since_return

\* C14 witness: a second batch is being drawn one tick after it was returned.
C14_Witness == pc = "draw" /\ returns >= 2 /\ since_return = 1

\* C15: a batch that comes out of the idle wait holds exactly one event; the
\* events queued behind it stay in the queue.
C15_IdleWaitYieldsOneEvent ==
    /\ [](waited => Len(IF pc = "ret" THEN events ELSE batch) = 1)
    /\ [][pc = "wait" /\ pc' # "wait"
            => /\ events' = <<Head(queue)>>
               /\ queue' = Tail(queue)]_vars

\* C15 witness: the idle wait returned one event and left another queued.
C15_Witness == waited /\ pc = "ret" /\ Len(events) = 1 /\ queue # <<>>

\* C16: every event the platform delivered is, in order and exactly once,
\* either in a batch already returned, in the batch being collected or still
\* queued; each return hands out the ids right after those returned before;
\* the poll takes everything queued, so the idle wait starts on an empty
\* queue; and an idle wait with an event queued ends.
C16_NoEventLostOrDuplicated ==
    /\ [](/\ returned_upto <= arrived
          /\ (InNext => Ids(events) \o Ids(queue) = IdRun(returned_upto + 1, arrived))
          /\ (~InNext => Ids(queue) = IdRun(returned_upto + 1, arrived)))
    /\ [][pc = "ret" /\ pc' # "ret"
            => Ids(batch') = IdRun(returned_upto + 1, returned_upto')]_vars
    /\ [][pc = "poll" /\ pc' # "poll"
            => /\ events' = queue
               /\ queue' = <<>>
               /\ (pc' = "wait" => events' = <<>>)]_vars
    /\ ((pc = "wait" /\ queue # <<>>) ~> (pc = "ret" /\ events # <<>>))

\* C16 witness: an event that arrived during a render was returned by the
\* following call of next together with one that arrived later.
C16_Witness ==
    pc = "proc" /\ returns >= 2 /\ Len(batch) = 2 /\ returned_upto = 3
    /\ ~waited

\* C17: an empty batch is the first batch or comes right after a batch that
\* was not empty and had an event delivered to the Ui; so two empty batches
\* never follow each other.
C17_NoTwoEmptyBatchesInARow ==
    [][pc = "ret" /\ pc' # "ret" /\ batch' = <<>>
        => returns = 0 \/ (prev_handled /\ batch # <<>>)]_vars

\* C17 witness: the one empty batch after a batch that delivered an event.
C17_Witness ==
    pc = "proc" /\ batch = <<>> /\ returns >= 2 /\ prev_handled

\* C18: the first call of next never idle-waits and sleeps at most one time
\* step, so it returns; with no event at all the first iteration goes on to
\* the widget callback and to draw_if_changed.
C18_FirstCallDoesNotIdleWait ==
    /\ [](returns = 0 => pc # "wait" /\ sleep_left <= time_step
                         /\ (InNext => ui_needs_update))
    /\ <>(returns >= 1)
    /\ ([](arrived = 0)
          => <>(/\ returns = 1
                /\ batch = <<>>
                /\ OpsOf({"callback", "some", "none"}) \in
                      {<<"callback", "some">>, <<"callback", "none">>}))

\* C18 witness: with no event delivered, the first iteration has run the
\* callback and asked draw_if_changed.
C18_Witness ==
    arrived = 0 /\ returns = 1 /\ pc = "loop" /\ time_step = MaxStep
    /\ OpsOf({"callback", "none"}) = <<"callback", "none">>

\* C19: of a batch with a CloseRequested, the events up to and including the
\* first close are translated (the close itself before run stops), those
\* that yield a Ui event are delivered, and no event behind it ever is.
C19_OnlyPrefixUpToCloseHandled ==
    FirstClose(batch) > 0 =>
        /\ pc \in {"proc", "done"}
        /\ \A k \in 1..Len(batch) :
              /\ (k > FirstClose(batch)
                    => /\ Op("translate", batch[k].id) \notin Range(it)
                       /\ Op("handle_event", batch[k].id) \notin Range(it)
                       /\ last_handled < batch[k].id)
              /\ (k <= FirstClose(batch) /\ pc = "done"
                    => /\ Op("translate", batch[k].id) \in Range(it)
                       /\ (Op("handle_event", batch[k].id) \in Range(it)
                             <=> convert_event(batch[k]) # <<>>))
        /\ (close_seen <=> pc = "done")
        /\ (close_seen => last_handled = batch[FirstClose(batch)].id)

\* C19 witness: run stopped on a close that had a delivered event before it
\* and an event behind it.
C19_Witness ==
    pc = "done" /\ FirstClose(batch) = 2 /\ Len(batch) = 3
    /\ Pos({"handle_event"}) # {}

\* C20: once the platform has delivered a CloseRequested, run returns,
\* unless a render backend call fails first.
C20_CloseEventuallyStopsRun == close_delivered ~> (pc = "done" \/ failed)

\* C20 witness: run returned on a close that ended an idle wait.
C20_Witness == pc = "done" /\ waited /\ close_delivered /\ returns >= 2

====
